---- MODULE Spec2Model ----
(***************************************************************************)
(* The two Flask fixture backends of cloudrun-wasm:                        *)
(*   01-edge-security/infrastructure/backend/app.py                        *)
(*   02-smart-router/infrastructure/backend/app.py                         *)
(* One process is modelled at a time: which app it runs, whether it was    *)
(* started with FLASK_ENV=development, the wall clock, START_TIME, and the *)
(* request contexts of the threads of the threaded WSGI server.            *)
(***************************************************************************)
EXTENDS Integers, Sequences, FiniteSets, TLC

VARIABLES server, debug, clock, START_TIME, ctx, observed

vars == <<server, debug, clock, START_TIME, ctx, observed>>

(***************************************************************************)
(* Bounds of the model.                                                    *)
(***************************************************************************)
\* Largest wall-clock reading, in ticks.
MaxClock == 4
\* Clock ticks per second: datetime has sub-second resolution.
TicksPerSecond == 2
\* Largest number of header lines in a request.
MaxHeaders == 2

\* The threads of the server that may each be serving one request.
Workers == {"t1", "t2"}

EdgeSecurity == "01-edge-security"
SmartRouter == "02-smart-router"
Servers == {EdgeSecurity, SmartRouter}

(***************************************************************************)
(* Requests.                                                               *)
(***************************************************************************)
Methods == {"GET", "POST", "PUT", "OPTIONS"}

Paths ==
    {"/health", "/api/user", "/api/user-clean", "/api/users",
     "/api/version", "/v1/api/version", "/v2/api/version",
     "/v1/api/data", "/v2/api/data", "/debug/headers", "/debug/echo",
     "/nope"}

\* Header names as the client writes them, and the values it sends.
HeaderNames == {"X-Routed-By", "x-routed-by", "X-Route-Reason"}
HeaderValues == {"filter-x", "beta-criteria"}
HeaderLines == [name : HeaderNames, value : HeaderValues]

RECURSIVE SeqsUpTo(_, _)
SeqsUpTo(S, n) ==
    IF n = 0 THEN {<<>>}
    ELSE LET shorter == SeqsUpTo(S, n - 1)
         IN  shorter \cup {Append(s, x) : s \in shorter, x \in S}

HeaderSeqs == SeqsUpTo(HeaderLines, MaxHeaders)

\* Query strings, as the sequence of their key=value pairs.
Queries ==
    {<<>>, <<[key |-> "a", value |-> "1"]>>,
     <<[key |-> "a", value |-> "1"], [key |-> "a", value |-> "2"]>>}

\* A request body is a sequence of byte runs: a run of valid UTF-8 is
\* written as its text, an undecodable byte as InvalidByte.
InvalidByte == "\\xff"
RawBodies == {<<>>, <<"hello">>, <<"hello", InvalidByte>>}

Addrs == {"10.0.0.1", "10.0.0.2"}

Request(m, p, q, h, b, a) ==
    [method |-> m, path |-> p, query |-> q, headers |-> h, body |-> b,
     remote_addr |-> a]

\* Every method on every path, nothing else in the request.
RouteProbes ==
    {Request(m, p, <<>>, <<>>, <<>>, "10.0.0.1") : m \in Methods, p \in Paths}

\* Every header list on the routes that read headers.
HeaderPaths ==
    {"/api/version", "/v1/api/version", "/v2/api/version", "/debug/headers",
     "/debug/echo"}
HeaderProbes ==
    {Request("GET", p, <<>>, h, <<>>, "10.0.0.1") : p \in HeaderPaths, h \in HeaderSeqs}

\* Queries, bodies and peers on the debug routes and on an unknown path.
EchoProbes ==
    {Request(m, p, q, <<>>, b, a) :
        m \in {"GET", "POST"}, p \in {"/debug/echo", "/debug/headers", "/nope"},
        q \in Queries, b \in RawBodies, a \in Addrs}

Requests == RouteProbes \cup HeaderProbes \cup EchoProbes

NoRequest == Request("", "", <<>>, <<>>, <<>>, "")

(***************************************************************************)
(* The request object the handlers read (flask.request).                   *)
(***************************************************************************)
EmptyMap == [k \in {} |-> ""]

\* The name a header has in request.headers: the WSGI server stores the
\* line "x-routed-by: v" under HTTP_X_ROUTED_BY and the headers object
\* gives the key back as X-Routed-By.
CanonName(n) ==
    CASE n = "x-routed-by" -> "X-Routed-By"
      [] OTHER -> n

\* A bug dict() over a multi-valued header list would have: the last line
\* of a repeated name replaces the earlier ones.
RECURSIVE EnvironHeadersLastWins(_)
EnvironHeadersLastWins(raw) ==
    IF raw = <<>> THEN EmptyMap
    ELSE LET init == EnvironHeadersLastWins(SubSeq(raw, 1, Len(raw) - 1))
             line == raw[Len(raw)]
             k == CanonName(line.name)
         IN  IF k \in DOMAIN init
             THEN [init EXCEPT ![k] = line.value]
             ELSE init @@ (k :> line.value)

\* dict(request.headers): one key per header name; the lines of a repeated
\* name are joined with a comma, in the order they were sent.
RECURSIVE EnvironHeaders(_)
EnvironHeaders(raw) ==
    IF raw = <<>> THEN EmptyMap
    ELSE LET init == EnvironHeaders(SubSeq(raw, 1, Len(raw) - 1))
             line == raw[Len(raw)]
             k == CanonName(line.name)
         IN  IF k \in DOMAIN init
             THEN [init EXCEPT ![k] = @ \o "," \o line.value]
             ELSE init @@ (k :> line.value)

\* A bug: the lookup reads the other routing header.
headers_get_swapped(req, name, default) ==
    LET h == EnvironHeaders(req.headers)
        other == IF name = "X-Routed-By" THEN "X-Route-Reason" ELSE "X-Routed-By"
    IN  IF other \in DOMAIN h THEN h[other] ELSE default

\* request.headers.get(name, default)
headers_get(req, name, default) ==
    LET h == EnvironHeaders(req.headers)
    IN  IF CanonName(name) \in DOMAIN h THEN h[CanonName(name)] ELSE default

\* dict(request.args): the first value of each query key.
RECURSIVE ArgsDict(_)
ArgsDict(query) ==
    IF query = <<>> THEN EmptyMap
    ELSE LET init == ArgsDict(SubSeq(query, 1, Len(query) - 1))
             pair == query[Len(query)]
         IN  IF pair.key \in DOMAIN init
             THEN init
             ELSE init @@ (pair.key :> pair.value)

\* request.get_data(as_text=True): the bytes decoded as UTF-8, each
\* undecodable byte replaced by U+FFFD.
ReplacementChar == "\\ufffd"
RECURSIVE get_data_as_text(_)
get_data_as_text(raw) ==
    IF raw = <<>> THEN ""
    ELSE get_data_as_text(SubSeq(raw, 1, Len(raw) - 1))
         \o (IF raw[Len(raw)] = InvalidByte THEN ReplacementChar ELSE raw[Len(raw)])

(***************************************************************************)
(* Responses.                                                              *)
(***************************************************************************)
\* jsonify(body), status
Json(status, body) ==
    [status |-> status, mimetype |-> "application/json", body |-> body]

NoResponse == [status |-> 0, mimetype |-> "", body |-> EmptyMap]

LogLine(level, msg) == [level |-> level, msg |-> msg]

\* What a view returns here: its response and the lines it logged.
Result(resp, log) == [resp |-> resp, log |-> log]

(***************************************************************************)
(* The view functions.  CurrentRequest is what flask.request resolves to   *)
(* in the thread that runs the view.                                       *)
(***************************************************************************)
\* int(x) of a duration of d ticks: the whole seconds, truncated toward 0.
IntSeconds(d) ==
    IF d >= 0 THEN d \div TicksPerSecond ELSE -((-d) \div TicksPerSecond)

\* health(): the uptime is the wall clock now minus START_TIME.
health(now) ==
    Result(Json(200, [status |-> "healthy", version |-> "1.0.0",
                      demo |-> server,
                      uptime_seconds |-> IntSeconds(now - START_TIME)]),
           <<>>)

get_user ==
    Result(Json(200,
        [id |-> "user-12345", name |-> "John Doe",
         email |-> "john.doe@example.com", phone |-> "555-123-4567",
         ssn |-> "123-45-6789",
         payment |-> [card_number |-> "4111-1111-1111-1111",
                      expiry |-> "12/25",
                      billing_address |-> [street |-> "123 Main St",
                                           city |-> "Anytown",
                                           state |-> "CA",
                                           zip |-> "12345"]],
         created_at |-> "2024-01-15T10:30:00Z"]),
        <<LogLine("info", "GET /api/user - Returning user with PII data")>>)

get_user_clean ==
    Result(Json(200,
        [id |-> "user-12345", name |-> "John Doe", membership |-> "gold",
         preferences |-> [newsletter |-> TRUE, notifications |-> TRUE],
         created_at |-> "2024-01-15T10:30:00Z"]),
        <<LogLine("info", "GET /api/user-clean - Returning user without PII data")>>)

get_users ==
    Result(Json(200,
        [users |-> <<[id |-> "user-001", name |-> "Alice Smith",
                      email |-> "alice.smith@example.com",
                      ssn |-> "111-22-3333", card |-> "5500-0000-0000-0004"],
                     [id |-> "user-002", name |-> "Bob Johnson",
                      email |-> "bob.j@company.org",
                      ssn |-> "444-55-6666", card |-> "3400-000000-00009"],
                     [id |-> "user-003", name |-> "Carol Williams",
                      email |-> "carol@personal.net",
                      ssn |-> "777-88-9999", card |-> "6011-0000-0000-0004"]>>,
         total |-> 3]),
        <<LogLine("info", "GET /api/users - Returning multiple users with PII")>>)

\* A bug: the alias echoes the path it was reached by.
get_version_v1_with_path(req) ==
    Result(Json(200,
        [version |-> "v1", environment |-> "production",
         build |-> "2024.01.15.001",
         features |-> [new_dashboard |-> FALSE, beta_analytics |-> FALSE],
         routing_info |-> [routed_by |-> headers_get(req, "X-Routed-By", "direct"),
                           route_reason |-> headers_get(req, "X-Route-Reason", "none")],
         path |-> req.path]),
        <<LogLine("info", "GET /v1/api/version - Returning v1 stable response")>>)

get_version_v1(req) ==
    Result(Json(200,
        [version |-> "v1", environment |-> "production",
         build |-> "2024.01.15.001",
         features |-> [new_dashboard |-> FALSE, beta_analytics |-> FALSE],
         routing_info |-> [routed_by |-> headers_get(req, "X-Routed-By", "direct"),
                           route_reason |-> headers_get(req, "X-Route-Reason", "none")]]),
        <<LogLine("info", "GET /v1/api/version - Returning v1 stable response")>>)

get_version_v2(req) ==
    Result(Json(200,
        [version |-> "v2-beta", environment |-> "beta",
         build |-> "2024.01.20.042",
         features |-> [new_dashboard |-> TRUE, beta_analytics |-> TRUE,
                       experimental_ai |-> TRUE],
         routing_info |-> [routed_by |-> headers_get(req, "X-Routed-By", "direct"),
                           route_reason |-> headers_get(req, "X-Route-Reason", "none")]]),
        <<LogLine("info", "GET /v2/api/version - Returning v2 beta response")>>)

get_data_v1 ==
    Result(Json(200,
        [version |-> "v1",
         data |-> [items |-> <<"item1", "item2", "item3">>, count |-> 3]]),
        <<LogLine("info", "GET /v1/api/data - Returning v1 data")>>)

get_data_v2 ==
    Result(Json(200,
        [version |-> "v2-beta",
         data |-> [items |-> <<"item1", "item2", "item3", "item4-new", "item5-beta">>,
                   count |-> 5, enhanced |-> TRUE,
                   ai_recommendations |-> <<"rec1", "rec2">>]]),
        <<LogLine("info", "GET /v2/api/data - Returning v2 data")>>)

\* A bug: the debug dump is stamped with the time of the call.
debug_headers_stamped(req) ==
    Result(Json(200,
        [headers |-> EnvironHeaders(req.headers), method |-> req.method,
         path |-> req.path, remote_addr |-> req.remote_addr,
         time |-> clock]),
        <<LogLine("debug", "Request headers")>>)

debug_headers(req) ==
    Result(Json(200,
        [headers |-> EnvironHeaders(req.headers), method |-> req.method,
         path |-> req.path, remote_addr |-> req.remote_addr]),
        <<LogLine("debug", "Request headers")>>)

\* A bug: the body is echoed whatever the method.
debug_echo_always_body(req) ==
    Result(Json(200,
        [method |-> req.method, path |-> req.path,
         headers |-> EnvironHeaders(req.headers), args |-> ArgsDict(req.query),
         body |-> get_data_as_text(req.body)]),
        <<>>)

debug_echo(req) ==
    LET response == [method |-> req.method, path |-> req.path,
                     headers |-> EnvironHeaders(req.headers),
                     args |-> ArgsDict(req.query)]
    IN  Result(Json(200,
            IF req.method = "POST"
            THEN response @@ ("body" :> get_data_as_text(req.body))
            ELSE response),
            <<>>)

(***************************************************************************)
(* The error handlers.                                                     *)
(***************************************************************************)
\* A bug: the message names the full request target, not the path.
not_found_full_target(req) ==
    Result(Json(404,
        [error |-> "Not Found",
         message |-> "The requested URL " \o req.path
                     \o (IF req.query = <<>> THEN "" ELSE "?")
                     \o " was not found",
         status |-> 404]),
        <<>>)

not_found(req) ==
    Result(Json(404,
        [error |-> "Not Found",
         message |-> "The requested URL " \o req.path \o " was not found",
         status |-> 404]),
        <<>>)

\* A bug: the handler puts the error text into the message.
internal_error_leaking(req, error) ==
    Result(Json(500,
        [error |-> "Internal Server Error",
         message |-> "An unexpected error occurred: " \o error,
         status |-> 500]),
        <<LogLine("error", "Exception on " \o req.path \o " [" \o req.method \o "]: " \o error),
          LogLine("error", "Internal error: 500 Internal Server Error")>>)

\* Flask logs the exception, then internal_error(error) logs the 500 it is
\* given and returns the fixed body.
internal_error(req, error) ==
    Result(Json(500,
        [error |-> "Internal Server Error",
         message |-> "An unexpected error occurred",
         status |-> 500]),
        <<LogLine("error", "Exception on " \o req.path \o " [" \o req.method \o "]: " \o error),
          LogLine("error", "Internal error: 500 Internal Server Error")>>)

(***************************************************************************)
(* Routing: the URL map built by the @app.route decorators.                *)
(***************************************************************************)
Rule(rule, methods, endpoint) ==
    [rule |-> rule, methods |-> methods, endpoint |-> endpoint]

\* A bug: the bare alias is registered on the v2 view.
UrlMapAliasOnV2(s) ==
    IF s = EdgeSecurity
    THEN {Rule("/health", {"GET"}, "health"),
          Rule("/api/user", {"GET"}, "get_user"),
          Rule("/api/user-clean", {"GET"}, "get_user_clean"),
          Rule("/api/users", {"GET"}, "get_users"),
          Rule("/debug/headers", {"GET"}, "debug_headers")}
    ELSE {Rule("/health", {"GET"}, "health"),
          Rule("/api/version", {"GET"}, "get_version_v2"),
          Rule("/v1/api/version", {"GET"}, "get_version_v1"),
          Rule("/v2/api/version", {"GET"}, "get_version_v2"),
          Rule("/v1/api/data", {"GET"}, "get_data_v1"),
          Rule("/v2/api/data", {"GET"}, "get_data_v2"),
          Rule("/debug/headers", {"GET"}, "debug_headers"),
          Rule("/debug/echo", {"GET", "POST"}, "debug_echo")}

UrlMap(s) ==
    IF s = EdgeSecurity
    THEN {Rule("/health", {"GET"}, "health"),
          Rule("/api/user", {"GET"}, "get_user"),
          Rule("/api/user-clean", {"GET"}, "get_user_clean"),
          Rule("/api/users", {"GET"}, "get_users"),
          Rule("/debug/headers", {"GET"}, "debug_headers")}
    ELSE {Rule("/health", {"GET"}, "health"),
          Rule("/api/version", {"GET"}, "get_version_v1"),
          Rule("/v1/api/version", {"GET"}, "get_version_v1"),
          Rule("/v2/api/version", {"GET"}, "get_version_v2"),
          Rule("/v1/api/data", {"GET"}, "get_data_v1"),
          Rule("/v2/api/data", {"GET"}, "get_data_v2"),
          Rule("/debug/headers", {"GET"}, "debug_headers"),
          Rule("/debug/echo", {"GET", "POST"}, "debug_echo")}

\* The methods a rule answers: those of its decorator (GET when none is
\* given), HEAD with GET, and the automatic OPTIONS.
RuleMethods(r) ==
    r.methods \cup (IF "GET" \in r.methods THEN {"HEAD"} ELSE {}) \cup {"OPTIONS"}

\* A bug: a rule is matched on its path alone.
MatchRequestAnyMethod(s, req) ==
    LET byPath == {r \in UrlMap(s) : r.rule = req.path}
    IN  IF byPath = {} THEN "NotFound"
        ELSE (CHOOSE r \in byPath : TRUE).endpoint

\* The outcome of matching a request against the URL map: the endpoint of
\* the rule, or the HTTP error routing raises.
MatchRequest(s, req) ==
    LET byPath == {r \in UrlMap(s) : r.rule = req.path}
        byMethod == {r \in byPath : req.method \in RuleMethods(r)}
    IN  IF byPath = {} THEN "NotFound"
        ELSE IF byMethod = {} THEN "MethodNotAllowed"
        ELSE IF req.method = "OPTIONS" THEN "AutomaticOptions"
        ELSE (CHOOSE r \in byMethod : TRUE).endpoint

RoutingOutcomes == {"NotFound", "MethodNotAllowed", "AutomaticOptions"}

\* The methods the Allow header of a 405 or of an OPTIONS answer lists.
AllowedMethods(s, req) ==
    UNION {RuleMethods(r) : r \in {r \in UrlMap(s) : r.rule = req.path}}

\* No handler is registered for 405: the client gets the framework's page.
MethodNotAllowedResponse(s, req) ==
    Result([status |-> 405, mimetype |-> "text/html",
            body |-> [title |-> "405 Method Not Allowed",
                      allow |-> AllowedMethods(s, req)]],
           <<>>)

\* The framework's answer to OPTIONS on a known path.
OptionsResponse(s, req) ==
    Result([status |-> 200, mimetype |-> "text/html",
            body |-> [allow |-> AllowedMethods(s, req)]],
           <<>>)

\* With debug=True the exception is re-raised to the development server,
\* whose debugger renders it.
DebuggerResponse(req, error) ==
    Result([status |-> 500, mimetype |-> "text/html",
            body |-> [title |-> error,
                      traceback |-> "Traceback (most recent call last)"]],
           <<>>)

\* The view function of an endpoint, called with the current request.
CallView(endpoint, req, now) ==
    CASE endpoint = "health" -> health(now)
      [] endpoint = "get_user" -> get_user
      [] endpoint = "get_user_clean" -> get_user_clean
      [] endpoint = "get_users" -> get_users
      [] endpoint = "get_version_v1" -> get_version_v1(req)
      [] endpoint = "get_version_v2" -> get_version_v2(req)
      [] endpoint = "get_data_v1" -> get_data_v1
      [] endpoint = "get_data_v2" -> get_data_v2
      [] endpoint = "debug_headers" -> debug_headers(req)
      [] endpoint = "debug_echo" -> debug_echo(req)

\* An exception a view may raise while it builds its response.
NoFault == "none"
Faults == {"MemoryError: out of memory"}

\* One request through the application: routing, the view, and the error
\* handlers of the app.
FullDispatch(req, now, fault) ==
    LET outcome == MatchRequest(server, req)
    IN  CASE outcome = "NotFound" -> not_found(req)
          [] outcome = "MethodNotAllowed" -> MethodNotAllowedResponse(server, req)
          [] outcome = "AutomaticOptions" -> OptionsResponse(server, req)
          [] OTHER ->
                IF fault = NoFault THEN CallView(outcome, req, now)
                ELSE IF debug THEN DebuggerResponse(req, fault)
                ELSE internal_error(req, fault)

(***************************************************************************)
(* The process.                                                            *)
(***************************************************************************)
IdleCtx ==
    [pc |-> "idle", req |-> NoRequest, resp |-> NoResponse, log |-> <<>>,
     raised |-> NoFault, now |-> 0]

NoExchange == [seen |-> FALSE, req |-> NoRequest, resp |-> NoResponse, now |-> 0]

\* Startup: the module is imported, START_TIME is read from the clock, and
\* __main__ passes debug = (FLASK_ENV == "development") to app.run.  The
\* process starts one second into the window of clock readings.
Init ==
    /\ server \in Servers
    /\ debug \in BOOLEAN
    /\ clock = TicksPerSecond
    /\ START_TIME = clock
    /\ ctx = [w \in Workers |-> IdleCtx]
    /\ observed = NoExchange

\* The wall clock advances.
Tick ==
    /\ clock < MaxClock
    /\ clock' = clock + 1
    /\ UNCHANGED <<server, debug, START_TIME, ctx, observed>>

\* The wall clock is set back (datetime.now reads the system clock, which
\* is not monotonic).
ClockSetBack ==
    /\ \E t \in 0..(clock - 1) : clock' = t
    /\ UNCHANGED <<server, debug, START_TIME, ctx, observed>>

\* A bug: flask.request is one global, not a per-thread context.
CurrentRequestAnyThread(w) ==
    ctx[CHOOSE v \in Workers : ctx[v].pc = "accepted"].req

\* flask.request in thread w: the request of that thread's context.
CurrentRequest(w) == ctx[w].req

\* A thread takes a request and pushes its request context.
Accept(w, r) ==
    /\ ctx[w].pc = "idle"
    /\ ctx' = [ctx EXCEPT ![w] = [IdleCtx EXCEPT !.pc = "accepted", !.req = r]]
    /\ UNCHANGED <<server, debug, clock, START_TIME, observed>>

\* The thread runs the request through the application.
Handle(w, fault) ==
    /\ ctx[w].pc = "accepted"
    /\ LET req == CurrentRequest(w)
           outcome == MatchRequest(server, req)
           out == FullDispatch(req, clock, fault)
       IN  /\ fault # NoFault => outcome \notin RoutingOutcomes
           /\ ctx' = [ctx EXCEPT ![w] =
                        [pc |-> "done", req |-> ctx[w].req, resp |-> out.resp,
                         log |-> out.log, raised |-> fault,
                         now |-> IF outcome = "health" /\ fault = NoFault
                                 THEN clock ELSE 0]]
    /\ UNCHANGED <<server, debug, clock, START_TIME, observed>>

\* The response is written to the client and the context is popped.
Send(w) ==
    /\ ctx[w].pc = "done"
    /\ ctx' = [ctx EXCEPT ![w] = IdleCtx]
    /\ UNCHANGED <<server, debug, clock, START_TIME, observed>>

\* The client keeps the exchange it is about to receive, to compare later
\* ones with.
Observe(w) ==
    /\ ctx[w].pc = "done"
    /\ observed' = [seen |-> TRUE, req |-> ctx[w].req, resp |-> ctx[w].resp,
                    now |-> ctx[w].now]
    /\ UNCHANGED <<server, debug, clock, START_TIME, ctx>>

AllIdle == \A w \in Workers : ctx[w].pc = "idle"

\* One request at a time, any request, views that may fail.
Next ==
    \/ Tick
    \/ ClockSetBack
    \/ AllIdle /\ \E w \in Workers, r \in Requests : Accept(w, r)
    \/ \E w \in Workers, f \in {NoFault} \cup Faults : Handle(w, f)
    \/ \E w \in Workers : Send(w)

Spec == Init /\ [][Next]_vars

\* The requests of the concurrent runs.
ConcRequests ==
    {Request("GET", "/health", <<>>, <<>>, <<>>, "10.0.0.1"),
     Request("GET", "/debug/headers", <<>>, <<>>, <<>>, "10.0.0.1"),
     Request("GET", "/debug/headers", <<>>, <<>>, <<>>, "10.0.0.2"),
     Request("GET", "/debug/echo", <<>>, <<>>, <<>>, "10.0.0.1"),
     Request("GET", "/debug/echo", <<[key |-> "a", value |-> "1"]>>, <<>>, <<>>, "10.0.0.1"),
     Request("POST", "/debug/echo", <<>>, <<>>, <<"hello">>, "10.0.0.1"),
     Request("GET", "/api/version", <<>>, <<>>, <<>>, "10.0.0.1"),
     Request("GET", "/v1/api/version", <<>>, <<>>, <<>>, "10.0.0.1"),
     Request("GET", "/api/version", <<>>,
             <<[name |-> "X-Routed-By", value |-> "filter-x"]>>, <<>>, "10.0.0.1"),
     Request("GET", "/v1/api/version", <<>>,
             <<[name |-> "X-Routed-By", value |-> "filter-x"]>>, <<>>, "10.0.0.1"),
     Request("GET", "/api/user", <<>>, <<>>, <<>>, "10.0.0.1"),
     Request("GET", "/nope", <<>>, <<>>, <<>>, "10.0.0.1")}

\* Requests served concurrently by the threads of the server, and a client
\* that compares exchanges.
NextConc ==
    \/ Tick
    \/ ClockSetBack
    \/ \E w \in Workers, r \in ConcRequests : Accept(w, r)
    \/ \E w \in Workers : Handle(w, NoFault)
    \/ \E w \in Workers : Send(w)
    \/ \E w \in Workers : Observe(w)

SpecConc == Init /\ [][NextConc]_vars

(***************************************************************************)
(* Properties.                                                             *)
(***************************************************************************)
Done(w) == ctx[w].pc = "done"

RegisteredPaths(s) == {r.rule : r \in UrlMap(s)}

\* The methods the decorator of the rule for a path declares.
DeclaredMethods(s, path) == UNION {r.methods : r \in {r \in UrlMap(s) : r.rule = path}}

\* The spellings of a header name: header names are case-insensitive.
NameClass(k) ==
    IF k \in {"X-Routed-By", "x-routed-by"} THEN {"X-Routed-By", "x-routed-by"} ELSE {k}

LinesNamed(raw, k) == SelectSeq(raw, LAMBDA line : line.name \in NameClass(k))

\* The value of a header field sent in several lines (RFC 9110, 5.3).
RECURSIVE JoinValues(_)
JoinValues(lines) ==
    IF Len(lines) = 1 THEN lines[1].value
    ELSE lines[1].value \o "," \o JoinValues(Tail(lines))

NotFoundBody(path) ==
    [error |-> "Not Found", status |-> 404,
     message |-> "The requested URL " \o path \o " was not found"]

InternalErrorBody ==
    [error |-> "Internal Server Error", status |-> 500,
     message |-> "An unexpected error occurred"]

\* C1: in both servers a request whose path matches no registered route is
\* answered with status 404 and the JSON body error "Not Found", status
\* 404, message "The requested URL <path> was not found", <path> being the
\* path of that request.
C1_UnknownPathIs404 ==
    \A w \in Workers :
        (Done(w) /\ ctx[w].req.path \notin RegisteredPaths(server)) =>
            /\ ctx[w].resp.status = 404
            /\ ctx[w].resp.mimetype = "application/json"
            /\ ctx[w].resp.body = NotFoundBody(ctx[w].req.path)

\* C1 witness: /nope was requested with a query string and answered 404.
C1_Witness ==
    \E w \in Workers :
        /\ Done(w)
        /\ ctx[w].req.path = "/nope"
        /\ ctx[w].req.query # <<>>
        /\ ctx[w].resp.status = 404
        /\ ctx[w].resp.body.message = "The requested URL /nope was not found"

VersionPaths == {"/api/version", "/v1/api/version", "/v2/api/version"}

\* The header field a version view echoes: its value when the request has
\* it, the default when it has not.
EchoedField(raw, name, default) ==
    IF LinesNamed(raw, name) = <<>> THEN default ELSE JoinValues(LinesNamed(raw, name))

\* C3: GET on /api/version, /v1/api/version and /v2/api/version answers
\* with routing_info.routed_by equal to the X-Routed-By header, "direct"
\* when absent, and routing_info.route_reason equal to X-Route-Reason,
\* "none" when absent; the rest of the body is a literal.
C3_RoutingInfoEchoesHeaders ==
    \A w \in Workers :
        (/\ Done(w)
         /\ server = SmartRouter
         /\ ctx[w].req.method = "GET"
         /\ ctx[w].req.path \in VersionPaths
         /\ ctx[w].raised = NoFault) =>
            LET raw == ctx[w].req.headers
                body == ctx[w].resp.body
                v2 == ctx[w].req.path = "/v2/api/version"
            IN  /\ ctx[w].resp.status = 200
                /\ body.routing_info.routed_by = EchoedField(raw, "X-Routed-By", "direct")
                /\ body.routing_info.route_reason = EchoedField(raw, "X-Route-Reason", "none")
                /\ DOMAIN body.routing_info = {"routed_by", "route_reason"}
                /\ [f \in DOMAIN body \ {"routing_info"} |-> body[f]] =
                      IF v2
                      THEN [version |-> "v2-beta", environment |-> "beta",
                            build |-> "2024.01.20.042",
                            features |-> [new_dashboard |-> TRUE,
                                          beta_analytics |-> TRUE,
                                          experimental_ai |-> TRUE]]
                      ELSE [version |-> "v1", environment |-> "production",
                            build |-> "2024.01.15.001",
                            features |-> [new_dashboard |-> FALSE,
                                          beta_analytics |-> FALSE]]

\* C3 witness: /v2/api/version with X-Routed-By: filter-x and
\* X-Route-Reason: beta-criteria echoed both.
C3_Witness ==
    \E w \in Workers :
        /\ Done(w)
        /\ ctx[w].req.path = "/v2/api/version"
        /\ ctx[w].req.headers = <<[name |-> "X-Routed-By", value |-> "filter-x"],
                                  [name |-> "X-Route-Reason", value |-> "beta-criteria"]>>
        /\ ctx[w].resp.status = 200
        /\ ctx[w].resp.body.routing_info =
              [routed_by |-> "filter-x", route_reason |-> "beta-criteria"]

\* The text of a body that is valid UTF-8 throughout.
RECURSIVE TextOf(_)
TextOf(raw) == IF raw = <<>> THEN "" ELSE raw[1] \o TextOf(Tail(raw))

\* C8: on the smart router /debug/echo answers GET and POST with status
\* 200 and the request's method, path, headers and query parameters; a
\* POST response also has body, the request body as text ("hello" for a
\* body of hello), and a GET response has no body field.
C8_EchoReturnsRequest ==
    \A w \in Workers :
        (/\ Done(w)
         /\ server = SmartRouter
         /\ ctx[w].req.path = "/debug/echo"
         /\ ctx[w].req.method \in {"GET", "POST"}
         /\ ctx[w].raised = NoFault) =>
            LET req == ctx[w].req
                body == ctx[w].resp.body
            IN  /\ ctx[w].resp.status = 200
                /\ ctx[w].resp.mimetype = "application/json"
                /\ body.method = req.method
                /\ body.path = req.path
                /\ \A i \in 1..Len(req.headers) :
                      \E k \in DOMAIN body.headers : req.headers[i].name \in NameClass(k)
                /\ \A k \in DOMAIN body.headers :
                      body.headers[k] = JoinValues(LinesNamed(req.headers, k))
                /\ DOMAIN body.args = {req.query[i].key : i \in 1..Len(req.query)}
                /\ \A i \in 1..Len(req.query) :
                      (\A j \in 1..(i - 1) : req.query[j].key # req.query[i].key)
                         => body.args[req.query[i].key] = req.query[i].value
                /\ req.method = "GET" => "body" \notin DOMAIN body
                /\ req.method = "POST" =>
                      /\ "body" \in DOMAIN body
                      /\ (\A i \in 1..Len(req.body) : req.body[i] # InvalidByte)
                            => body.body = TextOf(req.body)
                      /\ req.body = <<"hello">> => body.body = "hello"

\* C8 witness: POST /debug/echo with body hello was echoed.
C8_Witness ==
    \E w \in Workers :
        /\ Done(w)
        /\ ctx[w].req.method = "POST"
        /\ ctx[w].req.path = "/debug/echo"
        /\ ctx[w].req.body = <<"hello">>
        /\ ctx[w].req.query # <<>>
        /\ ctx[w].resp.status = 200
        /\ ctx[w].resp.body.body = "hello"
        /\ ctx[w].resp.body.method = "POST"

IsHeaderDump(w) ==
    /\ Done(w)
    /\ ctx[w].req.path = "/debug/headers"
    /\ ctx[w].req.method = "GET"
    /\ ctx[w].raised = NoFault

\* C9 as stated: GET /debug/headers returns every header line of the
\* request under the same name with the same value, nothing dropped or
\* merged, also when a name is repeated, with the method, path and remote
\* address of the request.
C9_Original ==
    \A w \in Workers :
        IsHeaderDump(w) =>
            LET req == ctx[w].req
                body == ctx[w].resp.body
            IN  /\ ctx[w].resp.status = 200
                /\ body.method = req.method
                /\ body.path = req.path
                /\ body.remote_addr = req.remote_addr
                /\ \A i \in 1..Len(req.headers) :
                      /\ req.headers[i].name \in DOMAIN body.headers
                      /\ body.headers[req.headers[i].name] = req.headers[i].value

\* C9 amended: GET /debug/headers returns one entry for each header name
\* of the request, names compared without case and written as X-Routed-By
\* is; its value is the values of the lines of that name joined by commas
\* in the order sent, so a header sent once under that spelling is returned
\* verbatim; with the method, path and remote address of the request.
C9_HeadersOnePerName ==
    \A w \in Workers :
        IsHeaderDump(w) =>
            LET req == ctx[w].req
                body == ctx[w].resp.body
            IN  /\ ctx[w].resp.status = 200
                /\ body.method = req.method
                /\ body.path = req.path
                /\ body.remote_addr = req.remote_addr
                /\ DOMAIN body.headers \subseteq {"X-Routed-By", "X-Route-Reason"}
                /\ \A i \in 1..Len(req.headers) :
                      \E k \in DOMAIN body.headers : req.headers[i].name \in NameClass(k)
                /\ \A k \in DOMAIN body.headers :
                      /\ LinesNamed(req.headers, k) # <<>>
                      /\ body.headers[k] = JoinValues(LinesNamed(req.headers, k))

\* C9 witness: a header sent twice, once in lower case, came back as one
\* entry with both values.
C9_Witness ==
    \E w \in Workers :
        /\ IsHeaderDump(w)
        /\ ctx[w].req.headers = <<[name |-> "X-Routed-By", value |-> "filter-x"],
                                  [name |-> "x-routed-by", value |-> "beta-criteria"]>>
        /\ ctx[w].resp.body.headers = [k \in {"X-Routed-By"} |-> "filter-x,beta-criteria"]

\* C10 as stated: whenever a view raises, in development mode or not, the
\* client receives status 500 with exactly the fixed JSON body, and no
\* exception text reaches the response.
C10_Original ==
    \A w \in Workers :
        (Done(w) /\ ctx[w].raised # NoFault) =>
            /\ ctx[w].resp.status = 500
            /\ ctx[w].resp.mimetype = "application/json"
            /\ ctx[w].resp.body = InternalErrorBody

\* C10 amended: whenever a view raises and the server was not started in
\* development mode, the client receives status 500 with exactly the fixed
\* JSON body, the error is logged, and the response can be sent; started
\* in development mode the answer is still 500 but is the debugger's page,
\* which names the exception.
C10_FixedBodyUnlessDebug ==
    \A w \in Workers :
        (Done(w) /\ ctx[w].raised # NoFault) =>
            /\ ctx[w].resp.status = 500
            /\ ENABLED Send(w)
            /\ ~debug =>
                  /\ ctx[w].resp.mimetype = "application/json"
                  /\ ctx[w].resp.body = InternalErrorBody
                  /\ \E i \in 1..Len(ctx[w].log) : ctx[w].log[i].level = "error"
            /\ debug =>
                  /\ ctx[w].resp.mimetype # "application/json"
                  /\ ctx[w].resp.body.title = ctx[w].raised

\* C10 witness: a view raised in a server started without development
\* mode and the client got the fixed 500.
C10_Witness ==
    \E w \in Workers :
        /\ Done(w)
        /\ ctx[w].raised # NoFault
        /\ ~debug
        /\ ctx[w].resp.status = 500
        /\ ctx[w].resp.body = InternalErrorBody

AliasPaths == {"/api/version", "/v1/api/version"}

\* C4: GET /v1/api/version and GET /api/version are aliases: for the same
\* request headers the two answer with the same status and the same body,
\* version "v1", environment "production".
C4_AliasRoutesAgree ==
    \A w \in Workers :
        (/\ Done(w)
         /\ observed.seen
         /\ server = SmartRouter
         /\ ctx[w].req.path \in AliasPaths
         /\ observed.req.path \in AliasPaths \ {ctx[w].req.path}
         /\ ctx[w].req.method = "GET"
         /\ observed.req.method = "GET"
         /\ ctx[w].req.headers = observed.req.headers) =>
            /\ ctx[w].resp.status = observed.resp.status
            /\ ctx[w].resp.body = observed.resp.body
            /\ ctx[w].resp.body.version = "v1"
            /\ ctx[w].resp.body.environment = "production"

\* C4 witness: the client holds the answer of one alias and the other
\* alias was answered for the same X-Routed-By header.
C4_Witness ==
    \E w \in Workers :
        /\ Done(w)
        /\ observed.seen
        /\ server = SmartRouter
        /\ ctx[w].req.path = "/v1/api/version"
        /\ observed.req.path = "/api/version"
        /\ ctx[w].req.headers = observed.req.headers
        /\ ctx[w].req.headers # <<>>
        /\ ctx[w].resp.body = observed.resp.body
        /\ ctx[w].resp.body.routing_info.routed_by = "filter-x"

IsHealth(req) == req.method = "GET" /\ req.path = "/health"

\* The view of thread w runs in this step.
Handles(w) == ctx[w].pc = "accepted" /\ ctx'[w].pc = "done"

\* C5: every GET /health answers 200 with an uptime_seconds that is a
\* non-negative integer, and uptime_seconds never decreases from one call
\* to a later call of the same process.
C5_UptimeMonotonic ==
    [][\A w \in Workers :
          (Handles(w) /\ IsHealth(ctx[w].req)) =>
              /\ ctx'[w].resp.status = 200
              /\ ctx'[w].resp.body.uptime_seconds \in Nat
              /\ \A v \in Workers \ {w} :
                    (Done(v) /\ IsHealth(ctx[v].req)) =>
                        ctx'[w].resp.body.uptime_seconds >= ctx[v].resp.body.uptime_seconds
              /\ (observed.seen /\ IsHealth(observed.req)) =>
                    ctx'[w].resp.body.uptime_seconds >= observed.resp.body.uptime_seconds]_vars

\* C6: concurrent requests never interfere: the step in which a thread
\* runs its view changes no other thread's context and never START_TIME,
\* and its response is the one the client has observed for the same
\* request (and, for /health, the same clock reading), whatever the other
\* thread is serving meanwhile.
C6_NoInterference ==
    [][/\ START_TIME' = START_TIME
       /\ \A w \in Workers :
             Handles(w) =>
                 /\ \A v \in Workers \ {w} : ctx'[v] = ctx[v]
                 /\ ctx'[w].req = ctx[w].req
                 /\ (/\ observed.seen
                     /\ observed.req = ctx[w].req
                     /\ observed.now = ctx'[w].now)
                    => ctx'[w].resp = observed.resp]_vars

\* C6 witness: a request was answered as the client had observed it
\* before, while the other thread was serving a request to another route.
C6_Witness ==
    \E w \in Workers, v \in Workers :
        /\ Done(w)
        /\ ctx[v].pc \in {"accepted", "done"}
        /\ ctx[v].req.path # ctx[w].req.path
        /\ observed.seen
        /\ observed.req = ctx[w].req
        /\ observed.resp = ctx[w].resp

\* C7 as stated: two calls to the same route with identical headers and
\* body return identical responses, whatever was served in between and
\* whenever the calls are made.
C7_Original ==
    \A w \in Workers :
        (/\ Done(w)
         /\ observed.seen
         /\ ctx[w].req.method = observed.req.method
         /\ ctx[w].req.path = observed.req.path
         /\ ctx[w].req.headers = observed.req.headers
         /\ ctx[w].req.body = observed.req.body) =>
            ctx[w].resp = observed.resp

\* C7 amended: on every route but /health, two calls with identical
\* requests (method, path, query string, headers, body and remote address)
\* whose views complete return identical responses, whatever was served in
\* between and whenever the calls are made.
C7_PureExceptHealth ==
    \A w \in Workers :
        (/\ Done(w)
         /\ observed.seen
         /\ ctx[w].req = observed.req
         /\ ctx[w].req.path # "/health") =>
            ctx[w].resp = observed.resp

\* C7 witness: /debug/headers was answered a second time, at a later clock
\* reading than the process start, as the client had observed it.
C7_Witness ==
    \E w \in Workers :
        /\ Done(w)
        /\ observed.seen
        /\ ctx[w].req = observed.req
        /\ ctx[w].req.path = "/debug/headers"
        /\ ctx[w].resp = observed.resp
        /\ clock # START_TIME

====
